---- MODULE Spec2Model ----
(***************************************************************************)
(* Model of xcursor_extractor.c: the command-line run (main,              *)
(* extract_cursor_frames, save_frame_as_png, create_directory) and the    *)
(* pixel transform separate_alpha_pixel.                                  *)
(*                                                                         *)
(* Two specifications share the variables:                                *)
(*   SpecPixel  applies separate_alpha_pixel to one 32-bit pixel;         *)
(*   Spec       is one run of the program from main to its return.        *)
(***************************************************************************)
EXTENDS Integers, Sequences, FiniteSets, TLC

VARIABLES
    littleEndian,   \* which branch of #if __BYTE_ORDER == __LITTLE_ENDIAN the build took
    pixel,          \* *pixel, the XcursorPixel separate_alpha_pixel works on
    pixelIn,        \* value of *pixel when separate_alpha_pixel was called
    divs,           \* divisors of the divisions separate_alpha_pixel evaluated, in order
    pxpc,           \* position of the separate_alpha_pixel call: idle, call, returned
    pc,             \* position of the run: main, extract, info, frames, done
    exitCode,       \* value returned by main (NoCode before it returns)
    outDirLen,      \* strlen(argv[2])
    images,         \* images->images[0 .. nimage-1] after XcursorFileLoad
    comments,       \* comments->comments[0 .. ncomment-1] after XcursorFileLoad
    i,              \* loop variable of the frame loop (0-based)
    stdout,         \* lines printed with printf
    stderr,         \* lines printed with fprintf(stderr, ...)
    files,          \* output files: path -> content
    openLog,        \* every fopen for writing, in order
    savedOk,        \* frame numbers whose save_frame_as_png returned 0, in order
    live,           \* resources acquired and not yet released
    failed          \* steps of the run that failed

pixelVars == <<pixel, pixelIn, divs, pxpc>>

runVars == <<pc, exitCode, outDirLen, images, comments, i, stdout, stderr,
             files, openLog, savedOk, live, failed>>

vars == <<littleEndian, pixel, pixelIn, divs, pxpc, pc, exitCode, outDirLen,
          images, comments, i, stdout, stderr, files, openLog, savedOk, live,
          failed>>

(***************************************************************************)
(* Bounds and sample inputs                                                *)
(***************************************************************************)
MaxFrames == 3

MaxComments == 1

Byte == 0 .. 255

\* colour bytes tried in every combination
ChanSamples == {0, 1, 128, 255}

Min(a, b) == IF a < b THEN a ELSE b

(***************************************************************************)
(* 32-bit unsigned arithmetic.  An unsigned int is the tuple of its four  *)
(* bytes <<bits 0-7, bits 8-15, bits 16-23, bits 24-31>>.                 *)
(***************************************************************************)
Word == [1 .. 4 -> Byte]

Zero == <<0, 0, 0, 0>>

\* the unsigned int holding the small value x
ToWord(x) == [j \in 1 .. 4 |-> (x \div (256 ^ (j - 1))) % 256]

RECURSIVE BitOr(_, _)
BitOr(a, b) ==
    IF a = 0 THEN b
    ELSE IF b = 0 THEN a
    ELSE (IF a % 2 = 1 \/ b % 2 = 1 THEN 1 ELSE 0) + 2 * BitOr(a \div 2, b \div 2)

\* v | w
WordOr(v, w) == [j \in 1 .. 4 |-> BitOr(v[j], w[j])]

\* w << n, n a multiple of 8; bits shifted past bit 31 are lost
Shl(w, n) == [j \in 1 .. 4 |-> IF j - (n \div 8) >= 1 THEN w[j - (n \div 8)] ELSE 0]

\* (w >> n) & 0xFF, n a multiple of 8
ByteAt(w, n) == w[(n \div 8) + 1]

(***************************************************************************)
(* separate_alpha_pixel                                                    *)
(***************************************************************************)
Blue(p, le)  == IF le THEN ByteAt(p, 0)  ELSE ByteAt(p, 24)
Green(p, le) == IF le THEN ByteAt(p, 8)  ELSE ByteAt(p, 16)
Red(p, le)   == IF le THEN ByteAt(p, 16) ELSE ByteAt(p, 8)
Alpha(p, le) == IF le THEN ByteAt(p, 24) ELSE ByteAt(p, 0)

\* *pixel = 0 on the alpha == 0 path
TransparentKeepsColour(p, le) ==
    IF le THEN [p EXCEPT ![4] = 0] ELSE [p EXCEPT ![1] = 0]
Transparent(p, le) == Zero

\* (c * 255 + alpha / 2) / alpha
UnpremultiplyBy255(c, alpha) == (c * 255 + alpha \div 2) \div 255
UnpremultiplyRoundUp(c, alpha) == (c * 255 + alpha) \div alpha
Unpremultiply(c, alpha) == (c * 255 + alpha \div 2) \div alpha

\* if (c > 255) c = 255
ClampNone(c) == c
Clamp(c) == IF c > 255 THEN 255 ELSE c

Reconstruct(a, r, g, b, le) ==
    IF le
    THEN WordOr(WordOr(WordOr(ToWord(b), Shl(ToWord(g), 8)), Shl(ToWord(r), 16)),
                Shl(ToWord(a), 24))
    ELSE WordOr(WordOr(WordOr(ToWord(a), Shl(ToWord(r), 8)), Shl(ToWord(g), 16)),
                Shl(ToWord(b), 24))

\* the divisions of lines 268-270, by divisor, in evaluation order
DivisorsOf(alpha) == <<2, alpha, 2, alpha, 2, alpha>>

\* the value separate_alpha_pixel leaves in *pixel, and the divisors it used
SeparateAlphaPixel(p, le) ==
    LET alpha == Alpha(p, le)
    IN  IF alpha = 0
        THEN [pixel |-> Transparent(p, le), divs |-> <<>>]
        ELSE [pixel |-> Reconstruct(alpha,
                                    Clamp(Unpremultiply(Red(p, le), alpha)),
                                    Clamp(Unpremultiply(Green(p, le), alpha)),
                                    Clamp(Unpremultiply(Blue(p, le), alpha)),
                                    le),
              divs  |-> DivisorsOf(alpha)]


(***************************************************************************)
(* separate_alpha_pixel applied to one pixel                               *)
(***************************************************************************)
\* the XcursorPixel with the given channels, as the build lays them out
Pack(a, r, g, b, le) == IF le THEN <<b, g, r, a>> ELSE <<a, r, g, b>>

\* colour bytes <<r, g, b>> tried with alpha a: every combination of the
\* samples and of a itself, and every byte in each channel on its own
ColourInputs(a) ==
    ((ChanSamples \cup {a}) \X (ChanSamples \cup {a}) \X (ChanSamples \cup {a}))
    \cup {<<c, a, a>> : c \in Byte}
    \cup {<<a, c, a>> : c \in Byte}
    \cup {<<a, a, c>> : c \in Byte}

RunIdle ==
    /\ pc = "idle"
    /\ exitCode = <<>>
    /\ outDirLen = 0
    /\ images = <<>>
    /\ comments = <<>>
    /\ i = 0
    /\ stdout = <<>>
    /\ stderr = <<>>
    /\ files = <<>>
    /\ openLog = <<>>
    /\ savedOk = <<>>
    /\ live = {}
    /\ failed = {}

InitPixel ==
    /\ littleEndian \in BOOLEAN
    /\ \E a \in Byte :
         \E c \in ColourInputs(a) :
            /\ pixel = Pack(a, c[1], c[2], c[3], littleEndian)
            /\ pixelIn = Pack(a, c[1], c[2], c[3], littleEndian)
    /\ divs = <<>>
    /\ pxpc = "call"
    /\ RunIdle

SeparateAlphaPixelCall ==
    /\ pxpc = "call"
    /\ pixel' = SeparateAlphaPixel(pixel, littleEndian).pixel
    /\ divs' = SeparateAlphaPixel(pixel, littleEndian).divs
    /\ pxpc' = "returned"
    /\ UNCHANGED <<littleEndian, pixelIn, runVars>>

NextPixel == SeparateAlphaPixelCall

SpecPixel == InitPixel /\ [][NextPixel]_vars

(***************************************************************************)
(* Paths: snprintf into char[1024]                                         *)
(***************************************************************************)
\* sizeof(output_path), sizeof(info_file)
BufSize == 1024

\* lengths of argv[2] tried
OutDirLens == {8, 1007, 1010, 1014, 1022, 1030}

DigitChar(d) == <<"0", "1", "2", "3", "4", "5", "6", "7", "8", "9">>[d + 1]

RECURSIVE Digits(_)
Digits(n) == IF n < 10 THEN <<DigitChar(n)>>
             ELSE Digits(n \div 10) \o <<DigitChar(n % 10)>>

\* %03d
Pad3(n) ==
    IF Len(Digits(n)) >= 3 THEN Digits(n)
    ELSE [k \in 1 .. (3 - Len(Digits(n))) |-> "0"] \o Digits(n)

\* "/frame_%03d.png"
FrameSuffix(n) ==
    <<"/", "f", "r", "a", "m", "e", "_">> \o Pad3(n) \o <<".", "p", "n", "g">>

\* "/cursor_info.txt"
InfoSuffix ==
    <<"/", "c", "u", "r", "s", "o", "r", "_", "i", "n", "f", "o", ".", "t", "x", "t">>

\* snprintf(buf, sizeof(buf), "%s<suffix>", output_dir): the first
\* BufSize - 1 characters; a path is the number of characters of output_dir
\* kept and the characters kept after them
Snprintf(dirLen, suffix) ==
    IF dirLen >= BufSize - 1
    THEN [dir |-> BufSize - 1, tail |-> <<>>]
    ELSE [dir |-> dirLen,
          tail |-> SubSeq(suffix, 1, Min(Len(suffix), BufSize - 1 - dirLen))]

OutputPath(dirLen, frame) == Snprintf(dirLen, FrameSuffix(frame))

InfoFile(dirLen) == Snprintf(dirLen, InfoSuffix)

\* fopen(path, "w") cannot succeed on a path that ends in "/"
MayOpen(path) ==
    IF path.tail = <<>> THEN TRUE ELSE path.tail[Len(path.tail)] # "/"

(***************************************************************************)
(* Containers XcursorFileLoad can deliver                                  *)
(***************************************************************************)
ImageSamples ==
    { [size |-> 24, width |-> 1, height |-> 1, xhot |-> 0, yhot |-> 0,
       delay |-> 0, pixels |-> << <<64, 32, 128, 128>> >>],
      [size |-> 32, width |-> 1, height |-> 2, xhot |-> 0, yhot |-> 1,
       delay |-> 100, pixels |-> << <<9, 9, 9, 0>>, <<255, 0, 7, 255>> >>] }

CommentSamples == { [comment_type |-> 1, comment |-> "copyright"] }

SeqsUpTo(S, n) == UNION {[1 .. k -> S] : k \in 0 .. n}

(***************************************************************************)
(* Output lines, files, resources                                          *)
(***************************************************************************)
NoPath == [dir |-> 0, tail |-> <<>>]

Line(tag, nums, path) == [tag |-> tag, nums |-> nums, path |-> path]

Res(name, k) == <<name, k>>

ExtractResources == {Res("images", 0), Res("comments", 0)}

\* the file at path is written (created or replaced) with content c
WriteFile(fs, path, c) ==
    [q \in DOMAIN fs \cup {path} |-> IF q = path THEN c ELSE fs[q]]

\* lines 102-122
ManifestBody(imgs, cs) ==
    <<Line("Cursor File:", <<>>, NoPath),
      Line("Number of frames:", <<Len(imgs)>>, NoPath),
      Line("", <<>>, NoPath),
      Line("Frame Details:", <<>>, NoPath),
      Line("Frame Size Width Height XHot YHot Delay", <<>>, NoPath)>>
    \o [k \in 1 .. Len(imgs) |->
           Line("frame", <<k, imgs[k].size, imgs[k].size, imgs[k].width,
                           imgs[k].height, imgs[k].xhot, imgs[k].yhot,
                           imgs[k].delay>>, NoPath)]
    \o (IF Len(cs) > 0
        THEN <<Line("Comments:", <<>>, NoPath)>>
             \o [k \in 1 .. Len(cs) |->
                    Line(cs[k].comment, <<cs[k].comment_type>>, NoPath)]
        ELSE <<>>)

\* lines 207-224: the four bytes R, G, B, A stored for one pixel
RgbaBytes(p, le) ==
    IF le
    THEN <<ByteAt(SeparateAlphaPixel(p, le).pixel, 16),
           ByteAt(SeparateAlphaPixel(p, le).pixel, 8),
           ByteAt(SeparateAlphaPixel(p, le).pixel, 0),
           ByteAt(SeparateAlphaPixel(p, le).pixel, 24)>>
    ELSE <<ByteAt(SeparateAlphaPixel(p, le).pixel, 8),
           ByteAt(SeparateAlphaPixel(p, le).pixel, 16),
           ByteAt(SeparateAlphaPixel(p, le).pixel, 24),
           ByteAt(SeparateAlphaPixel(p, le).pixel, 0)>>

\* lines 204-226: row y (0-based) of the image as width * 4 bytes
RowBytes(image, y, le) ==
    [k \in 1 .. (image.width * 4) |->
        RgbaBytes(image.pixels[y * image.width + ((k - 1) \div 4) + 1], le)[((k - 1) % 4) + 1]]

PngRows(image, le) == [y \in 1 .. image.height |-> RowBytes(image, y - 1, le)]

PngFile(frame, state, rows) ==
    [kind |-> "png", frame |-> frame, state |-> state, body |-> rows]

ManifestFile(body) ==
    [kind |-> "manifest", frame |-> 0, state |-> "complete", body |-> body]

(***************************************************************************)
(* save_frame_as_png                                                       *)
(***************************************************************************)
SaveOutcomes ==
    {"open_fail", "write_struct_fail", "info_struct_fail", "ihdr_error",
     "write_info_error", "write_image_error", "write_end_error", "ok"}

\* resources of one call, by the line that acquires them
SaveFp(frame)     == {Res("out_fp", frame)}
SavePng(frame)    == {Res("png_ptr", frame)}
SaveInfo(frame)   == {Res("info_ptr", frame)}
SaveRows(image, frame) ==
    {Res("row_pointers", frame)} \cup
    {Res("row", frame * 1000 + y) : y \in 0 .. image.height - 1}

\* The whole call: what it returns, the files and live resources it leaves,
\* and what it prints on stderr.  outcome is the first thing that goes wrong.
SaveFrameAsPng(image, path, frame, outcome, fs, lv, le) ==
    IF outcome = "open_fail"
    THEN \* lines 159-163
         [ret |-> 1, files |-> fs, live |-> lv,
          err |-> <<Line("Cannot create", <<>>, path)>>]
    ELSE IF outcome = "write_struct_fail"
    THEN \* lines 166-170
         [ret |-> 1, files |-> WriteFile(fs, path, PngFile(frame, "empty", <<>>)),
          live |-> (lv \cup SaveFp(frame)) \ SaveFp(frame), err |-> <<>>]
    ELSE IF outcome = "info_struct_fail"
    THEN \* lines 172-177
         [ret |-> 1, files |-> WriteFile(fs, path, PngFile(frame, "empty", <<>>)),
          live |-> ((lv \cup SaveFp(frame) \cup SavePng(frame)) \ SavePng(frame))
                      \ SaveFp(frame),
          err |-> <<>>]
    ELSE IF outcome = "ihdr_error"
    THEN \* png_set_IHDR longjmps to line 180; lines 181-183
         [ret |-> 1, files |-> WriteFile(fs, path, PngFile(frame, "empty", <<>>)),
          live |-> ((lv \cup SaveFp(frame) \cup SavePng(frame) \cup SaveInfo(frame))
                       \ (SavePng(frame) \cup SaveInfo(frame))) \ SaveFp(frame),
          err |-> <<>>]
    ELSE IF outcome = "write_info_error"
    THEN \* png_write_info longjmps to line 180; lines 181-183
         [ret |-> 1, files |-> WriteFile(fs, path, PngFile(frame, "partial", <<>>)),
          live |-> ((lv \cup SaveFp(frame) \cup SavePng(frame) \cup SaveInfo(frame))
                       \ (SavePng(frame) \cup SaveInfo(frame))) \ SaveFp(frame),
          err |-> <<>>]
    ELSE IF outcome \in {"write_image_error", "write_end_error"}
    THEN \* lines 198-201 have allocated the rows; png_write_image or
         \* png_write_end longjmps to line 180; lines 181-183
         [ret |-> 1, files |-> WriteFile(fs, path, PngFile(frame, "partial", <<>>)),
          live |-> ((lv \cup SaveFp(frame) \cup SavePng(frame) \cup SaveInfo(frame)
                        \cup SaveRows(image, frame))
                       \ (SavePng(frame) \cup SaveInfo(frame))) \ SaveFp(frame),
          err |-> <<>>]
    ELSE \* lines 186-241
         [ret |-> 0,
          files |-> WriteFile(fs, path, PngFile(frame, "complete", PngRows(image, le))),
          live |-> (((lv \cup SaveFp(frame) \cup SavePng(frame) \cup SaveInfo(frame)
                         \cup SaveRows(image, frame))
                        \ SaveRows(image, frame))
                       \ (SavePng(frame) \cup SaveInfo(frame))) \ SaveFp(frame),
          err |-> <<>>]

(***************************************************************************)
(* create_directory                                                        *)
(***************************************************************************)
CreateDirectory(outcome) ==
    IF outcome = "is_dir" THEN [ret |-> 0, err |-> <<>>]
    ELSE IF outcome = "not_dir"
    THEN [ret |-> 1, err |-> <<Line("exists but is not a directory", <<>>, NoPath)>>]
    ELSE IF outcome = "mkdir_fail"
    THEN [ret |-> 1, err |-> <<Line("Cannot create directory", <<>>, NoPath)>>]
    ELSE [ret |-> 0, err |-> <<>>]

(***************************************************************************)
(* main and extract_cursor_frames                                          *)
(***************************************************************************)
Init ==
    /\ littleEndian \in BOOLEAN
    /\ pixel = Zero
    /\ pixelIn = Zero
    /\ divs = <<>>
    /\ pxpc = "idle"
    /\ pc = "main"
    /\ exitCode = <<>>
    /\ outDirLen = 0
    /\ images = <<>>
    /\ comments = <<>>
    /\ i = 0
    /\ stdout = <<>>
    /\ stderr = <<>>
    /\ files = <<>>
    /\ openLog = <<>>
    /\ savedOk = <<>>
    /\ live = {}
    /\ failed = {}

\* lines 54-60: main after extract_cursor_frames returned result, having
\* printed out so far
MainReturns(result, out) ==
    /\ stdout' = (IF result = 0
                  THEN Append(out, Line("Successfully extracted cursor frames", <<>>, NoPath))
                  ELSE out)
    /\ exitCode' = <<result>>
    /\ pc' = "done"

\* lines 32-35
MainUsage ==
    /\ pc = "main"
    /\ \E argc \in {1, 2, 4} :
         /\ stdout' = Append(stdout, Line("usage", <<argc>>, NoPath))
         /\ exitCode' = <<1>>
         /\ pc' = "done"
         /\ failed' = failed \cup {"usage"}
    /\ UNCHANGED <<littleEndian, pixelVars, outDirLen, images, comments, i, stderr,
                   files, openLog, savedOk, live>>

\* lines 41-45
MainInputUnreadable ==
    /\ pc = "main"
    /\ stderr' = Append(stderr, Line("Cannot read input file", <<>>, NoPath))
    /\ exitCode' = <<1>>
    /\ pc' = "done"
    /\ failed' = failed \cup {"access"}
    /\ UNCHANGED <<littleEndian, pixelVars, outDirLen, images, comments, i, stdout,
                   files, openLog, savedOk, live>>

\* lines 48-51
MainCreateDirectoryFails ==
    /\ pc = "main"
    /\ \E outcome \in {"not_dir", "mkdir_fail"}, len \in OutDirLens :
         /\ CreateDirectory(outcome).ret # 0
         /\ outDirLen' = len
         /\ stderr' = stderr \o CreateDirectory(outcome).err
                          \o <<Line("Cannot create output directory", <<>>, NoPath)>>
    /\ exitCode' = <<1>>
    /\ pc' = "done"
    /\ failed' = failed \cup {"create_directory"}
    /\ UNCHANGED <<littleEndian, pixelVars, images, comments, i, stdout,
                   files, openLog, savedOk, live>>

\* lines 32-54 when every check passes: extract_cursor_frames is called
MainCallsExtract ==
    /\ pc = "main"
    /\ \E outcome \in {"is_dir", "mkdir_ok"}, len \in OutDirLens :
         /\ CreateDirectory(outcome).ret = 0
         /\ outDirLen' = len
    /\ pc' = "extract"
    /\ UNCHANGED <<littleEndian, pixelVars, exitCode, images, comments, i, stdout,
                   stderr, files, openLog, savedOk, live, failed>>

\* lines 74-78
ExtractOpenFails ==
    /\ pc = "extract"
    /\ stderr' = Append(stderr, Line("Cannot open", <<>>, NoPath))
    /\ failed' = failed \cup {"open_input"}
    /\ MainReturns(1, stdout)
    /\ UNCHANGED <<littleEndian, pixelVars, outDirLen, images, comments, i,
                   files, openLog, savedOk, live>>

\* lines 74-85
ExtractLoadFails ==
    /\ pc = "extract"
    /\ live' = (live \cup {Res("fp", 0)}) \ {Res("fp", 0)}
    /\ stderr' = Append(stderr, Line("is not a valid XCursor file", <<>>, NoPath))
    /\ failed' = failed \cup {"load"}
    /\ MainReturns(1, stdout)
    /\ UNCHANGED <<littleEndian, pixelVars, outDirLen, images, comments, i,
                   files, openLog, savedOk>>

\* lines 74-94 with images->nimage == 0, were the check of line 89 missing
ExtractLoadEmptyUnchecked ==
    /\ pc = "extract"
    /\ \E cs \in SeqsUpTo(CommentSamples, MaxComments) :
         /\ images' = <<>>
         /\ comments' = cs
    /\ live' = ((live \cup {Res("fp", 0)}) \cup ExtractResources) \ {Res("fp", 0)}
    /\ stdout' = Append(stdout, Line("Found frames", <<0>>, NoPath))
    /\ pc' = "info"
    /\ UNCHANGED <<littleEndian, pixelVars, exitCode, outDirLen, i, stderr, files,
                   openLog, savedOk, failed>>

\* lines 74-94 with images->nimage == 0
ExtractLoadEmpty ==
    /\ pc = "extract"
    /\ \E cs \in SeqsUpTo(CommentSamples, MaxComments) :
         /\ images' = <<>>
         /\ comments' = cs
    /\ live' = (((live \cup {Res("fp", 0)}) \cup ExtractResources) \ {Res("fp", 0)})
                  \ ExtractResources
    /\ stderr' = Append(stderr, Line("No images found in cursor file", <<>>, NoPath))
    /\ failed' = failed \cup {"empty"}
    /\ MainReturns(1, stdout)
    /\ UNCHANGED <<littleEndian, pixelVars, outDirLen, i, files, openLog, savedOk>>

\* lines 74-96 with images->nimage >= 1
ExtractLoadOk ==
    /\ pc = "extract"
    /\ \E imgs \in SeqsUpTo(ImageSamples, MaxFrames),
          cs \in SeqsUpTo(CommentSamples, MaxComments) :
         /\ Len(imgs) >= 1
         /\ images' = imgs
         /\ comments' = cs
         /\ stdout' = Append(stdout, Line("Found frames", <<Len(imgs)>>, NoPath))
    /\ live' = ((live \cup {Res("fp", 0)}) \cup ExtractResources) \ {Res("fp", 0)}
    /\ pc' = "info"
    /\ UNCHANGED <<littleEndian, pixelVars, exitCode, outDirLen, i, stderr, files,
                   openLog, savedOk, failed>>

\* lines 99-125, fopen succeeded
WriteInfo ==
    /\ pc = "info"
    /\ MayOpen(InfoFile(outDirLen))
    /\ files' = WriteFile(files, InfoFile(outDirLen),
                          ManifestFile(ManifestBody(images, comments)))
    /\ openLog' = Append(openLog, [kind |-> "info", frame |-> 0,
                                   path |-> InfoFile(outDirLen), ok |-> TRUE])
    /\ live' = (live \cup {Res("info_fp", 0)}) \ {Res("info_fp", 0)}
    /\ i' = 0
    /\ pc' = "frames"
    /\ UNCHANGED <<littleEndian, pixelVars, exitCode, outDirLen, images, comments,
                   stdout, stderr, savedOk, failed>>

\* lines 99-101 and 125, fopen returned NULL
WriteInfoOpenFails ==
    /\ pc = "info"
    /\ openLog' = Append(openLog, [kind |-> "info", frame |-> 0,
                                   path |-> InfoFile(outDirLen), ok |-> FALSE])
    /\ failed' = failed \cup {"manifest"}
    /\ i' = 0
    /\ pc' = "frames"
    /\ UNCHANGED <<littleEndian, pixelVars, exitCode, outDirLen, images, comments,
                   stdout, stderr, files, savedOk, live>>

\* the line printed at 138-140 for frame i + 1
SavedLine ==
    Line("Saved frame",
         <<i + 1, images[i + 1].width, images[i + 1].height, images[i + 1].size,
           images[i + 1].delay>>,
         OutputPath(outDirLen, i + 1))

\* one iteration of the loop of line 128 whose save_frame_as_png fails, were
\* the progress line printed before the result is looked at
SaveFrameFailsAfterPrinting ==
    /\ pc = "frames"
    /\ i < Len(images)
    /\ \E outcome \in SaveOutcomes \ {"ok"} :
         LET path == OutputPath(outDirLen, i + 1)
             r == SaveFrameAsPng(images[i + 1], path, i + 1, outcome, files, live,
                                 littleEndian)
         IN  /\ outcome # "open_fail" => MayOpen(path)
             /\ r.ret # 0
             /\ openLog' = Append(openLog, [kind |-> "frame", frame |-> i + 1,
                                            path |-> path, ok |-> outcome # "open_fail"])
             /\ files' = r.files
             /\ stderr' = stderr \o r.err
                              \o <<Line("Failed to save frame", <<i + 1>>, NoPath)>>
             /\ live' = r.live \ ExtractResources
    /\ failed' = failed \cup {"save"}
    /\ MainReturns(1, Append(stdout, SavedLine))
    /\ UNCHANGED <<littleEndian, pixelVars, outDirLen, images, comments, i, savedOk>>

\* lines 128-136: one iteration of the loop whose save_frame_as_png fails
SaveFrameFails ==
    /\ pc = "frames"
    /\ i < Len(images)
    /\ \E outcome \in SaveOutcomes \ {"ok"} :
         LET path == OutputPath(outDirLen, i + 1)
             r == SaveFrameAsPng(images[i + 1], path, i + 1, outcome, files, live,
                                 littleEndian)
         IN  /\ outcome # "open_fail" => MayOpen(path)
             /\ r.ret # 0
             /\ openLog' = Append(openLog, [kind |-> "frame", frame |-> i + 1,
                                            path |-> path, ok |-> outcome # "open_fail"])
             /\ files' = r.files
             /\ stderr' = stderr \o r.err
                              \o <<Line("Failed to save frame", <<i + 1>>, NoPath)>>
             /\ live' = r.live \ ExtractResources
    /\ failed' = failed \cup {"save"}
    /\ MainReturns(1, stdout)
    /\ UNCHANGED <<littleEndian, pixelVars, outDirLen, images, comments, i, savedOk>>

\* lines 128-141: one iteration of the loop whose save_frame_as_png succeeds
SaveFrameOk ==
    /\ pc = "frames"
    /\ i < Len(images)
    /\ LET path == OutputPath(outDirLen, i + 1)
           r == SaveFrameAsPng(images[i + 1], path, i + 1, "ok", files, live,
                               littleEndian)
       IN  /\ MayOpen(path)
           /\ r.ret = 0
           /\ openLog' = Append(openLog, [kind |-> "frame", frame |-> i + 1,
                                          path |-> path, ok |-> TRUE])
           /\ files' = r.files
           /\ live' = r.live
    /\ savedOk' = Append(savedOk, i + 1)
    /\ stdout' = Append(stdout, SavedLine)
    /\ i' = i + 1
    /\ UNCHANGED <<littleEndian, pixelVars, pc, exitCode, outDirLen, images, comments,
                   stderr, failed>>

\* lines 128 (loop ends), 143-147 and 56-60
ExtractReturns ==
    /\ pc = "frames"
    /\ i >= Len(images)
    /\ live' = live \ ExtractResources
    /\ MainReturns(0, stdout)
    /\ UNCHANGED <<littleEndian, pixelVars, outDirLen, images, comments, i, stderr,
                   files, openLog, savedOk, failed>>

Next ==
    \/ MainUsage
    \/ MainInputUnreadable
    \/ MainCreateDirectoryFails
    \/ MainCallsExtract
    \/ ExtractOpenFails
    \/ ExtractLoadFails
    \/ ExtractLoadEmpty
    \/ ExtractLoadOk
    \/ WriteInfo
    \/ WriteInfoOpenFails
    \/ SaveFrameFails
    \/ SaveFrameOk
    \/ ExtractReturns

Spec == Init /\ [][Next]_vars

(***************************************************************************)
(* Properties of separate_alpha_pixel (checked under SpecPixel)            *)
(***************************************************************************)
\* the value a colour byte c must have after the transform at alpha a >= 1
Expected(c, a) == Min(255, (c * 255 + a \div 2) \div a)

\* C2: a pixel whose alpha byte is 0 comes back as the all-zero pixel,
\* whatever its colour bytes were, and no division was evaluated.
C2_ZeroAlpha ==
    (pxpc = "returned" /\ Alpha(pixelIn, littleEndian) = 0)
        => (pixel = Zero /\ divs = <<>>)

C2_Witness ==
    /\ pxpc = "returned"
    /\ Alpha(pixelIn, littleEndian) = 0
    /\ Red(pixelIn, littleEndian) = 255
    /\ Green(pixelIn, littleEndian) = 128
    /\ Blue(pixelIn, littleEndian) = 1

\* C3: for alpha a in 1..255 and any colour bytes (also bytes larger than a),
\* the alpha byte stays a and each colour byte c becomes
\* min(255, (c*255 + a div 2) div a); all four bytes of the result are bytes,
\* so no channel reaches into a neighbouring byte.
C3_Unpremultiplied ==
    (pxpc = "returned" /\ Alpha(pixelIn, littleEndian) >= 1)
        => /\ pixel \in Word
           /\ Alpha(pixel, littleEndian) = Alpha(pixelIn, littleEndian)
           /\ Red(pixel, littleEndian) =
                  Expected(Red(pixelIn, littleEndian), Alpha(pixelIn, littleEndian))
           /\ Green(pixel, littleEndian) =
                  Expected(Green(pixelIn, littleEndian), Alpha(pixelIn, littleEndian))
           /\ Blue(pixel, littleEndian) =
                  Expected(Blue(pixelIn, littleEndian), Alpha(pixelIn, littleEndian))

C3_Witness ==
    /\ pxpc = "returned"
    /\ Alpha(pixelIn, littleEndian) = 3
    /\ Red(pixelIn, littleEndian) = 255
    /\ Green(pixelIn, littleEndian) = 1
    /\ Blue(pixelIn, littleEndian) = 128
    /\ Green(pixel, littleEndian) = 85

\* C4: for every a in 1..255 the saturated premultiplied pixel r = g = b = a
\* becomes r = g = b = 255 with alpha a.
C4_Saturated ==
    (/\ pxpc = "returned"
     /\ Alpha(pixelIn, littleEndian) >= 1
     /\ Red(pixelIn, littleEndian) = Alpha(pixelIn, littleEndian)
     /\ Green(pixelIn, littleEndian) = Alpha(pixelIn, littleEndian)
     /\ Blue(pixelIn, littleEndian) = Alpha(pixelIn, littleEndian))
        => pixel = Pack(Alpha(pixelIn, littleEndian), 255, 255, 255, littleEndian)

C4_Witness ==
    /\ pxpc = "returned"
    /\ pixelIn = <<77, 77, 77, 77>>
    /\ pixel = Pack(77, 255, 255, 255, littleEndian)

\* C5: a pixel with alpha 255 is returned unchanged, whatever its colour bytes.
C5_OpaqueIdentity ==
    (pxpc = "returned" /\ Alpha(pixelIn, littleEndian) = 255) => pixel = pixelIn

C5_Witness ==
    /\ pxpc = "returned"
    /\ Alpha(pixelIn, littleEndian) = 255
    /\ Red(pixelIn, littleEndian) = 128
    /\ Green(pixelIn, littleEndian) = 0
    /\ Blue(pixelIn, littleEndian) = 1
    /\ pixel = pixelIn

(***************************************************************************)
(* Properties of a run (checked under Spec)                                *)
(***************************************************************************)
ManifestWritten ==
    \E k \in DOMAIN openLog : openLog[k].kind = "info" /\ openLog[k].ok

IsSavedLine(l) == l.tag = "Saved frame"

IsSummaryLine(l) == l.tag = "Successfully extracted cursor frames"

\* the frame numbers of the progress lines on stdout, in order
ProgressFrames ==
    [k \in 1 .. Len(SelectSeq(stdout, IsSavedLine)) |->
        SelectSeq(stdout, IsSavedLine)[k].nums[1]]

\* C1: the run returns 1 whenever a step failed, and returns 0 only when
\* the manifest and every frame file were written.
C1_ExitCodeReflectsFailures ==
    pc = "done" =>
        /\ exitCode \in {<<0>>, <<1>>}
        /\ failed # {} => exitCode = <<1>>
        /\ exitCode = <<0>> =>
              (ManifestWritten /\ savedOk = [k \in 1 .. Len(images) |-> k])

\* C6: when the save of frame k fails, the run returns 1, nothing is opened
\* for a later frame, and every frame file already written completely is
\* left as it was.
C6_FirstFailureAborts ==
    [][/\ (pc = "frames" /\ i < Len(images) /\ savedOk' = savedOk) =>
             /\ pc' = "done"
             /\ exitCode' = <<1>>
             /\ Len(openLog') = Len(openLog) + 1
             /\ \A p \in DOMAIN files :
                   (files[p].kind = "png" /\ files[p].state = "complete") =>
                       (p \in DOMAIN files' /\ files'[p] = files[p])
       /\ pc = "done" => openLog' = openLog]_vars

\* C7: frame i (1-based, load order) is written to <dir>/frame_<i>.png with
\* i zero-padded to 3 digits; frames are written in strictly increasing
\* order and no two frames are written to the same path.
C7_FrameNaming ==
    \A k \in DOMAIN openLog :
        (openLog[k].kind = "frame" /\ openLog[k].ok) =>
            /\ openLog[k].path =
                   [dir |-> outDirLen, tail |-> FrameSuffix(openLog[k].frame)]
            /\ \A j \in 1 .. (k - 1) :
                   (openLog[j].kind = "frame" /\ openLog[j].ok) =>
                       /\ openLog[j].frame < openLog[k].frame
                       /\ openLog[j].path # openLog[k].path

\* C8: the progress lines on stdout are exactly the frames whose save
\* returned success, in frame order, and the summary line is on stdout
\* exactly when the run has returned 0.
C8_ProgressAccounting ==
    /\ ProgressFrames = savedOk
    /\ Len(SelectSeq(stdout, IsSummaryLine)) =
           (IF pc = "done" /\ exitCode = <<0>> THEN 1 ELSE 0)

C8_Witness ==
    /\ pc = "done"
    /\ exitCode = <<1>>
    /\ "save" \in failed
    /\ savedOk = <<1, 2>>
    /\ ProgressFrames = <<1, 2>>

\* C9: once save_frame_as_png has returned nothing it acquired is still
\* held, and once extract_cursor_frames has returned nothing at all is held.
C9_ResourcesReleased ==
    /\ pc \in {"frames", "done"} => live \subseteq ExtractResources
    /\ pc = "done" => live = {}

====
